---- MODULE Spec2Model ----
(***************************************************************************)
(* Model of the slack-hi5 cloud function (src/yelp.go): the HTTP handler   *)
(* Yelp, the command parser parseParams, the block builders and the two    *)
(* outbound calls (Yelp search, Slack callback).                           *)
(*                                                                         *)
(* Strings are sequences of chunks (TLA+ strings).  Every string that the  *)
(* program inspects character by character (the command text, its keys and *)
(* values) is a sequence of one-character chunks; literals that are only   *)
(* concatenated and written out are single chunks.                         *)
(***************************************************************************)
EXTENDS Integers, Sequences, FiniteSets, TLC

(***************************************************************************)
(* Bounds of the model.                                                    *)
(***************************************************************************)
\* Longest list of businesses the search API is taken to return (the code
\* asks for limit=5 but does not cap what comes back).
MaxBusinesses == 6

(***************************************************************************)
(* Program constants.                                                      *)
(***************************************************************************)
\* radiusMi := 5.0
DefaultRadiusMi == 5
\* if radiusMi > 24
MaxRadiusMi == 24
\* http.StatusOK, http.StatusNoContent, http.StatusBadRequest
StatusOK == 200
StatusNoContent == 204
StatusBadRequest == 400

\* 1 / 0.00062137 = MetersNum / MetersDen
MetersDen == 62137
MetersDigits == 8

(***************************************************************************)
(* strings                                                                 *)
(***************************************************************************)
Upper == <<"A","B","C","D","E","F","G","H","I","J","K","L","M",
           "N","O","P","Q","R","S","T","U","V","W","X","Y","Z">>
Lower == <<"a","b","c","d","e","f","g","h","i","j","k","l","m",
           "n","o","p","q","r","s","t","u","v","w","x","y","z">>
Digits == <<"0","1","2","3","4","5","6","7","8","9">>

IndexIn(tbl, c) ==
    IF \E i \in 1..Len(tbl) : tbl[i] = c
    THEN CHOOSE i \in 1..Len(tbl) : tbl[i] = c
    ELSE 0

\* strings.Index(s, c) + 1 for a one-character c (0: not found).
Index(s, c) ==
    LET at == {i \in 1..Len(s) : s[i] = c}
    IN  IF at = {} THEN 0 ELSE CHOOSE i \in at : \A j \in at : i <= j

ToLowerCh(c) == IF IndexIn(Upper, c) > 0 THEN Lower[IndexIn(Upper, c)] ELSE c

\* strings.ToLower
ToLower(s) == [i \in 1..Len(s) |-> ToLowerCh(s[i])]

IsSpace(c) == c \in {" ", "\t", "\n", "\r"}

\* strings.TrimSpace
TrimSpace(s) ==
    IF \A i \in 1..Len(s) : IsSpace(s[i])
    THEN <<>>
    ELSE LET a == CHOOSE i \in 1..Len(s) :
                      ~IsSpace(s[i]) /\ \A j \in 1..(i-1) : IsSpace(s[j])
             b == CHOOSE i \in 1..Len(s) :
                      ~IsSpace(s[i]) /\ \A j \in (i+1)..Len(s) : IsSpace(s[j])
         IN  SubSeq(s, a, b)

\* strings.Join(parts, sep)
RECURSIVE Join(_, _)
Join(parts, sep) ==
    IF parts = <<>> THEN <<>>
    ELSE IF Len(parts) = 1 THEN parts[1]
    ELSE parts[1] \o sep \o Join(Tail(parts), sep)

(***************************************************************************)
(* net/url: QueryUnescape, ParseQuery, Values.Get                          *)
(***************************************************************************)
HexVal(c) ==
    IF IndexIn(Digits, c) > 0 THEN IndexIn(Digits, c) - 1
    ELSE IF IndexIn(SubSeq(Lower, 1, 6), c) > 0 THEN 9 + IndexIn(SubSeq(Lower, 1, 6), c)
    ELSE IF IndexIn(SubSeq(Upper, 1, 6), c) > 0 THEN 9 + IndexIn(SubSeq(Upper, 1, 6), c)
    ELSE -1

\* The byte with this code, as a chunk.
Chr(code) ==
    IF code \in 48..57 THEN Digits[code - 47]
    ELSE IF code \in 65..90 THEN Upper[code - 64]
    ELSE IF code \in 97..122 THEN Lower[code - 96]
    ELSE CASE code = 32 -> " "
           [] code = 37 -> "%"
           [] code = 38 -> "&"
           [] code = 43 -> "+"
           [] code = 44 -> ","
           [] code = 45 -> "-"
           [] code = 46 -> "."
           [] code = 61 -> "="
           [] OTHER     -> "byte" \o ToString(code)

\* url.QueryUnescape: %XX is decoded, + is a space, and a % that is not
\* followed by two hex digits is the error `invalid URL escape "%.."`.
RECURSIVE QueryUnescape(_)
QueryUnescape(s) ==
    IF s = <<>> THEN [ok |-> TRUE, val |-> <<>>, err |-> <<>>]
    ELSE IF s[1] = "%"
    THEN IF Len(s) >= 3 /\ HexVal(s[2]) >= 0 /\ HexVal(s[3]) >= 0
         THEN LET r == QueryUnescape(SubSeq(s, 4, Len(s)))
              IN  [r EXCEPT !.val = <<Chr(16 * HexVal(s[2]) + HexVal(s[3]))>> \o @]
         ELSE [ok |-> FALSE, val |-> <<>>,
               err |-> <<"invalid URL escape \"">>
                       \o SubSeq(s, 1, IF Len(s) < 3 THEN Len(s) ELSE 3)
                       \o <<"\"">>]
    ELSE LET r == QueryUnescape(Tail(s))
         IN  [r EXCEPT !.val = <<IF s[1] = "+" THEN " " ELSE s[1]>> \o @]

\* One key=value segment of a query added in front of the pairs r of the
\* segments after it (the body of the loop of url.ParseQuery).
AddSegment(seg, r) ==
    LET e == Index(seg, "=")
        k == QueryUnescape(IF e > 0 THEN SubSeq(seg, 1, e - 1) ELSE seg)
        v == QueryUnescape(IF e > 0 THEN SubSeq(seg, e + 1, Len(seg)) ELSE <<>>)
    IN  IF seg = <<>> THEN r
        ELSE IF ~k.ok THEN [values |-> r.values, ok |-> FALSE, err |-> k.err]
        ELSE IF ~v.ok THEN [values |-> r.values, ok |-> FALSE, err |-> v.err]
        ELSE [r EXCEPT !.values = <<[key |-> k.val, val |-> v.val]>> \o @]

\* url.ParseQuery: the pairs it could decode, in order, and the first error.
RECURSIVE ParseQuery(_)
ParseQuery(query) ==
    IF query = <<>> THEN [values |-> <<>>, ok |-> TRUE, err |-> <<>>]
    ELSE IF Index(query, "&") > 0
    THEN AddSegment(SubSeq(query, 1, Index(query, "&") - 1),
                    ParseQuery(SubSeq(query, Index(query, "&") + 1, Len(query))))
    ELSE AddSegment(query, [values |-> <<>>, ok |-> TRUE, err |-> <<>>])

\* url.Values.Get: the first value of the key, "" when there is none.
Get(values, key) ==
    IF \E i \in 1..Len(values) : values[i].key = key
    THEN values[CHOOSE i \in 1..Len(values) :
                    values[i].key = key /\ \A j \in 1..(i-1) : values[j].key # key].val
    ELSE <<>>

(***************************************************************************)
(* strconv.ParseFloat and float64 values                                   *)
(*                                                                         *)
(* A float64 is [kind, neg, n, d]: the number (-1)^neg * n / d for kind    *)
(* "num" (d a power of ten), an infinity for "inf", NaN for "nan".  The    *)
(* grammar covered is [+-]digits[.digits], [+-]inf, [+-]infinity and nan   *)
(* (letters in any case); every other text is a syntax error.  Exponent    *)
(* and hexadecimal forms are not among the radius texts of the model.      *)
(***************************************************************************)
Num(neg, n, d) == [kind |-> "num", neg |-> neg, n |-> n, d |-> d]
Inf(neg) == [kind |-> "inf", neg |-> neg, n |-> 0, d |-> 1]
NaN == [kind |-> "nan", neg |-> FALSE, n |-> 0, d |-> 1]

RECURSIVE DigitsValue(_)
DigitsValue(s) ==
    IF s = <<>> THEN 0
    ELSE 10 * DigitsValue(SubSeq(s, 1, Len(s) - 1)) + (IndexIn(Digits, s[Len(s)]) - 1)

RECURSIVE Pow10(_)
Pow10(k) == IF k = 0 THEN 1 ELSE 10 * Pow10(k - 1)

AllDigits(s) == \A i \in 1..Len(s) : IndexIn(Digits, s[i]) > 0

ParseFloat(s) ==
    LET signed == s # <<>> /\ s[1] \in {"+", "-"}
        neg    == s # <<>> /\ s[1] = "-"
        body   == IF signed THEN Tail(s) ELSE s
        low    == ToLower(body)
        dot    == Index(body, ".")
        ip     == IF dot > 0 THEN SubSeq(body, 1, dot - 1) ELSE body
        fp     == IF dot > 0 THEN SubSeq(body, dot + 1, Len(body)) ELSE <<>>
    IN  IF low = <<"n","a","n">> /\ ~signed THEN [ok |-> TRUE, f |-> NaN]
        ELSE IF low \in {<<"i","n","f">>, <<"i","n","f","i","n","i","t","y">>}
        THEN [ok |-> TRUE, f |-> Inf(neg)]
        ELSE IF AllDigits(ip) /\ AllDigits(fp) /\ Len(ip) + Len(fp) > 0
        THEN [ok |-> TRUE,
              f  |-> Num(neg, DigitsValue(ip) * Pow10(Len(fp)) + DigitsValue(fp),
                         Pow10(Len(fp)))]
        ELSE [ok |-> FALSE, f |-> Num(FALSE, 0, 1)]

\* f > m for an integer m >= 0 (false for NaN, as in IEEE 754).
FloatGt(f, m) ==
    \/ f.kind = "inf" /\ ~f.neg
    \/ f.kind = "num" /\ ~f.neg /\ f.n > m * f.d

\* floor((q * D + r) * 10^k / D) for 0 <= r < D, by long division (the
\* products stay within 32 bits).
RECURSIVE ScaledDiv(_, _, _, _)
ScaledDiv(q, r, D, k) ==
    IF k = 0 THEN q
    ELSE ScaledDiv(q * 10 + (r * 10) \div D, (r * 10) % D, D, k - 1)

\* What int(x) may give for a float64 x that int cannot represent (NaN,
\* -Inf): the Go specification leaves the value to the implementation.
\* amd64 gives the smallest int, arm64 gives 0 for NaN; the smallest int
\* is stood for by the smallest number of the model.
SmallestInt == -(2147483647)
UnrepresentableConv == {SmallestInt, 0}

\* int(radiusMi / 0.00062137): the quotient truncated toward zero; conv is
\* the implementation's value for a quotient int cannot represent.  The
\* quotient is computed exactly (0.00062137 = MetersDen / 10^MetersDigits);
\* the float64 quotient truncates to the same integer unless the exact one
\* is within a rounding error of an integer, which no radius of the model
\* is (5 miles is 8046.73.., 24 miles is 38624.33..).
MilesToMeters(f, conv) ==
    IF f.kind = "num"
    THEN LET D == f.d * MetersDen
             m == ScaledDiv(f.n \div D, f.n % D, D, MetersDigits)
         IN  IF f.neg THEN -m ELSE m
    ELSE conv

(***************************************************************************)
(* Params and parseParams                                                  *)
(***************************************************************************)
K_token == <<"token">>
K_response_url == <<"response_url">>
K_user_name == <<"user_name">>
K_text == <<"text">>
K_category == <<"c","a","t","e","g","o","r","y">>
K_location == <<"l","o","c","a","t","i","o","n">>
K_term == <<"t","e","r","m">>
K_radius == <<"r","a","d","i","u","s">>
S_help == <<"h","e","l","p">>

ErrMaxRadius == <<"Maximum radius is 24 miles">>
ErrNoLocation == <<"You must specify a location">>
ErrNoCategory == <<"You must specify a category">>

\* The zero value of Params.
ZeroParams ==
    [Token |-> <<>>, ResponseURL |-> <<>>, Location |-> <<>>, Radius |-> 0,
     UserName |-> <<>>, Category |-> <<>>, SearchTerm |-> <<>>, Help |-> FALSE]

Fail(msg) == [ok |-> FALSE, p |-> ZeroParams, err |-> msg]

\* The radius in miles that parseParams settles on for the decoded query q.
radiusMi(q) ==
    IF Get(q, K_radius) # <<>> /\ ParseFloat(Get(q, K_radius)).ok
    THEN ParseFloat(Get(q, K_radius)).f
    ELSE Num(FALSE, DefaultRadiusMi, 1)

\* Mutant: the category is checked before the location.
parseParams_CategoryFirst(params, conv) ==
    LET token       == Get(params, K_token)
        responseURL == Get(params, K_response_url)
        userName    == Get(params, K_user_name)
        text        == TrimSpace(Get(params, K_text))
        pq          == ParseQuery(text)
        q           == pq.values
    IN  IF ToLower(text) = S_help
        THEN [ok |-> TRUE, p |-> [ZeroParams EXCEPT !.Help = TRUE, !.Token = token],
              err |-> <<>>]
        ELSE IF ~pq.ok THEN Fail(pq.err)
        ELSE IF FloatGt(radiusMi(q), MaxRadiusMi) THEN Fail(ErrMaxRadius)
        ELSE IF Get(q, K_category) = <<>> THEN Fail(ErrNoCategory)
        ELSE IF Get(q, K_location) = <<>> THEN Fail(ErrNoLocation)
        ELSE [ok  |-> TRUE,
              p   |-> [Token       |-> token,
                       ResponseURL |-> responseURL,
                       UserName    |-> userName,
                       Location    |-> Get(q, K_location),
                       Category    |-> ToLower(Get(q, K_category)),
                       SearchTerm  |-> Get(q, K_term),
                       Radius      |-> MilesToMeters(radiusMi(q), conv),
                       Help        |-> FALSE],
              err |-> <<>>]

\* Mutant: the location is checked before the radius.
parseParams_LocationFirst(params, conv) ==
    LET token       == Get(params, K_token)
        responseURL == Get(params, K_response_url)
        userName    == Get(params, K_user_name)
        text        == TrimSpace(Get(params, K_text))
        pq          == ParseQuery(text)
        q           == pq.values
    IN  IF ToLower(text) = S_help
        THEN [ok |-> TRUE, p |-> [ZeroParams EXCEPT !.Help = TRUE, !.Token = token],
              err |-> <<>>]
        ELSE IF ~pq.ok THEN Fail(pq.err)
        ELSE IF Get(q, K_location) = <<>> THEN Fail(ErrNoLocation)
        ELSE IF FloatGt(radiusMi(q), MaxRadiusMi) THEN Fail(ErrMaxRadius)
        ELSE IF Get(q, K_category) = <<>> THEN Fail(ErrNoCategory)
        ELSE [ok  |-> TRUE,
              p   |-> [Token       |-> token,
                       ResponseURL |-> responseURL,
                       UserName    |-> userName,
                       Location    |-> Get(q, K_location),
                       Category    |-> ToLower(Get(q, K_category)),
                       SearchTerm  |-> Get(q, K_term),
                       Radius      |-> MilesToMeters(radiusMi(q), conv),
                       Help        |-> FALSE],
              err |-> <<>>]

parseParams(params, conv) ==
    LET token       == Get(params, K_token)
        responseURL == Get(params, K_response_url)
        userName    == Get(params, K_user_name)
        text        == TrimSpace(Get(params, K_text))
        pq          == ParseQuery(text)
        q           == pq.values
    IN  IF ToLower(text) = S_help
        THEN [ok |-> TRUE, p |-> [ZeroParams EXCEPT !.Help = TRUE, !.Token = token],
              err |-> <<>>]
        ELSE IF ~pq.ok THEN Fail(pq.err)
        ELSE IF FloatGt(radiusMi(q), MaxRadiusMi) THEN Fail(ErrMaxRadius)
        ELSE IF Get(q, K_location) = <<>> THEN Fail(ErrNoLocation)
        ELSE IF Get(q, K_category) = <<>> THEN Fail(ErrNoCategory)
        ELSE [ok  |-> TRUE,
              p   |-> [Token       |-> token,
                       ResponseURL |-> responseURL,
                       UserName    |-> userName,
                       Location    |-> Get(q, K_location),
                       Category    |-> ToLower(Get(q, K_category)),
                       SearchTerm  |-> Get(q, K_term),
                       Radius      |-> MilesToMeters(radiusMi(q), conv),
                       Help        |-> FALSE],
              err |-> <<>>]

(***************************************************************************)
(* The requests of the model                                               *)
(***************************************************************************)
Absent == <<"#absent">>

CategoryOpts == {Absent, <<>>, <<"P","i","z","z","a">>}
LocationOpts == {Absent, <<>>, <<"l","a",",","c","a">>}
TermOpts == {Absent, <<"b","e","e","r">>, <<"1","0","0","%">>}
RadiusOpts == {Absent, <<"a","b","c">>, <<"-","5">>, <<"0">>, <<"5">>, <<"2","4">>, <<"2","4",".","5">>, <<"2","5">>, <<"n","a","n">>, <<"i","n","f">>, <<"-","i","n","f">>}

Pair(key, opt) == IF opt = Absent THEN <<>> ELSE <<key \o <<"=">> \o opt>>

\* The command text category=..&location=..&term=..&radius=.. with the
\* absent keys left out.
CommandText(c, l, t, r) ==
    Join(Pair(K_category, c) \o Pair(K_location, l) \o Pair(K_term, t)
         \o Pair(K_radius, r), <<"&">>)

HelpTexts == {S_help, <<" ","H","e","L","P"," ">>, <<"h","e","l","p"," ","m","e">>}

\* radius given twice (Get takes the first) and keys in another order.
OtherTexts == {<<"r","a","d","i","u","s","=","3","0","&","r","a","d","i","u","s","=","5","&","l","o","c","a","t","i","o","n","=","l","a","&","c","a","t","e","g","o","r","y","=","b","a","r","s">>,
               <<"r","a","d","i","u","s","=","5","&","r","a","d","i","u","s","=","3","0","&","l","o","c","a","t","i","o","n","=","l","a","&","c","a","t","e","g","o","r","y","=","b","a","r","s">>,
               <<"l","o","c","a","t","i","o","n","=","a","+","b","%","2","C","c","&","c","a","t","e","g","o","r","y","=","B","a","r","s">>}

Texts ==
    { CommandText(c, l, t, r) :
        c \in CategoryOpts, l \in LocationOpts, t \in TermOpts, r \in RadiusOpts }
    \cup HelpTexts \cup OtherTexts

\* url.QueryEscape, as the chat platform applies it to a form value: the
\* characters that have a meaning in a query are percent-encoded and a
\* space becomes +.
EscapeCh(c) ==
    CASE c = " " -> <<"+">>
      [] c = "%" -> <<"%", "2", "5">>
      [] c = "&" -> <<"%", "2", "6">>
      [] c = "+" -> <<"%", "2", "B">>
      [] c = "," -> <<"%", "2", "C">>
      [] c = "=" -> <<"%", "3", "D">>
      [] OTHER   -> <<c>>

RECURSIVE QueryEscape(_)
QueryEscape(s) == IF s = <<>> THEN <<>> ELSE EscapeCh(s[1]) \o QueryEscape(Tail(s))

\* var slackToken = os.Getenv("SLACK_TOKEN")
slackToken == <<"T0K3N">>
\* var apiKey = os.Getenv("API_KEY")
apiKey == <<"K3Y">>
\* const slackOrigin, const apiBase
slackOrigin == <<"hooks.slack.com">>
apiBase == <<"https://api.yelp.com/v3/businesses/search">>

TokenOpts == {Absent, slackToken, <<"wrong">>}
CallbackURL == <<"https://hooks.slack.com/commands/1">>
UserName == <<"rob">>

Field(key, opt) == IF opt = Absent THEN <<>> ELSE <<key \o <<"=">> \o QueryEscape(opt)>>

\* The form-encoded body of a slash-command request.
FormBody(tok, text) ==
    Join(Field(K_token, tok) \o Field(K_response_url, CallbackURL)
         \o Field(K_user_name, UserName) \o Field(K_text, text), <<"&">>)

\* A body that is not form-encoded.
BadBody == K_token \o <<"=", "%", "z", "z">>

Bodies ==
    { FormBody(tok, text) : tok \in TokenOpts, text \in Texts \cup {Absent} }
    \cup {BadBody}

Methods == {"OPTIONS", "POST"}

\* An inbound request: readOk is whether ioutil.ReadAll(r.Body) succeeds.
Requests == [Method : Methods, readOk : BOOLEAN, Body : Bodies]

(***************************************************************************)
(* The search results of the model                                         *)
(***************************************************************************)
\* Rating is in tenths (4.5 is 45).
Business1 ==
    [Name |-> <<"Joe's">>, ImageURL |-> <<"https://img/1.jpg">>,
     URL |-> <<"https://yelp/joes">>, ReviewCount |-> 120, Price |-> <<"$$">>,
     Rating |-> 45, DisplayAddress |-> << <<"1 Main St">>, <<"Los Angeles, CA">> >>]
Business2 ==
    [Name |-> <<"Luigi">>, ImageURL |-> <<"https://img/2.jpg">>,
     URL |-> <<"https://yelp/luigi">>, ReviewCount |-> 7, Price |-> <<"$">>,
     Rating |-> 40, DisplayAddress |-> << <<"2 Oak Ave">> >>]
Businesses == {Business1, Business2}

\* The lists the search API may return: every order, with repetitions.
ResultLists == UNION { [1..n -> Businesses] : n \in 0..MaxBusinesses }

(***************************************************************************)
(* Blocks and the outbound calls                                           *)
(***************************************************************************)
\* A *TextBlock / *AccessoryBlock is a sequence of zero (nil) or one element.
TextBlock(type, text) == <<[Type |-> type, Text |-> text]>>
AccessoryBlock(type, imageURL, altText) ==
    <<[Type |-> type, ImageURL |-> imageURL, AltText |-> altText]>>
Block(type, text, accessory) == [Type |-> type, Text |-> text, Accessory |-> accessory]

\* fmt's %.1f of a rating in tenths and %d of an int.
FmtF1(r) == <<ToString(r \div 10), ".", ToString(r % 10)>>
FmtD(n) == <<ToString(n)>>

\* The section of one business (the body of the loop of buildBusinessBlocks).
businessBlock(b) ==
    Block("section",
          TextBlock("mrkdwn",
              <<"*">> \o b.Name \o <<" ">> \o b.Price \o <<":* ">> \o FmtF1(b.Rating)
              \o <<" [star] (">> \o FmtD(b.ReviewCount) \o <<" reviews)\n">>
              \o Join(b.DisplayAddress, <<" ">>) \o <<"\n\n">> \o b.URL),
          AccessoryBlock("image", b.ImageURL, <<"alt text">>))

headerMsg(params) ==
    <<"*Ok @">> \o params.UserName \o <<" here's a Hi-5 for ">> \o params.Category
    \o (IF params.SearchTerm # <<>> THEN <<" and ">> \o params.SearchTerm ELSE <<>>)
    \o <<" near ">> \o params.Location \o <<"*">>

\* Mutant: the business sections are appended in reverse order.
buildBusinessBlocks_Reversed(params, businesses) ==
    << Block("section", TextBlock("mrkdwn", headerMsg(params)), <<>>),
       Block("divider", <<>>, <<>>) >>
    \o [i \in 1..Len(businesses) |->
            businessBlock(businesses[Len(businesses) + 1 - i])]

buildBusinessBlocks(params, businesses) ==
    << Block("section", TextBlock("mrkdwn", headerMsg(params)), <<>>),
       Block("divider", <<>>, <<>>) >>
    \o [i \in 1..Len(businesses) |-> businessBlock(businesses[i])]

notFoundMsg(params) ==
    <<"*Sorry we couldn't find any results for ">> \o params.Category \o <<" in ">>
    \o params.Location \o <<". Try increasing your search radius*">>

\* Mutant: the not-found message is followed by a divider.
notFoundBlocks_WithDivider(params) ==
    << Block("section", TextBlock("mrkdwn", notFoundMsg(params)), <<>>),
       Block("divider", <<>>, <<>>) >>

\* The blocks postNotFound hands to postToSlack.
notFoundBlocks(params) == << Block("section", TextBlock("mrkdwn", notFoundMsg(params)), <<>>) >>

\* The request postToSlack sends: the SlackMessage as JSON, POSTed to url.
postToSlack(url, blocks) ==
    [Method |-> "POST", URL |-> url, ContentType |-> <<"application/json">>,
     Body |-> [ResponseType |-> <<"in_channel">>, Blocks |-> blocks]]

postNotFound(params) == postToSlack(params.ResponseURL, notFoundBlocks(params))

\* The request getYelpResults sends.
getYelpResults(params) ==
    [Method |-> "GET", URL |-> apiBase,
     Authorization |-> <<"Bearer ">> \o apiKey,
     Query |-> << <<"location", params.Location>>,
                  <<"radius", FmtD(params.Radius)>>,
                  <<"categories", params.Category>>,
                  <<"limit", <<"5">> >>,
                  <<"sort_by", <<"rating">> >> >>
               \o (IF params.SearchTerm # <<>>
                   THEN << <<"term", params.SearchTerm>> >> ELSE <<>>)]

\* What printHelp writes.
helpMsg ==
    <<"*Hi5 helps you find the top 5 rated businesses in a specified category and location.*",
      "\n\n[fence]\n",
      "Usage: /hi5 category=<category>&location=<city,state|zip>&[options] ...",
      "\n[fence]">>

ErrBadRequest == <<"Bad request", "\n">>
ErrInternal == <<"Internal Server Error">>

(***************************************************************************)
(* The handler Yelp, one inbound request per behaviour                     *)
(***************************************************************************)
VARIABLES
    req,        \* the inbound request
    conv,       \* the build's int(x) for an x that int cannot represent
    pc,         \* where the handler is: Received, Searching, Publishing, Done
    header,     \* w.Header(): the response headers set
    status,     \* the status line of the response (0: none sent yet)
    respBody,   \* the writes to the response body, in order
    bodyValues, \* the handler's bodyValues: the decoded form
    err,        \* the handler's err: the last error's message (<<>>: nil)
    params,     \* the handler's params (ZeroParams until parsed)
    yelpReq,    \* the search requests sent, in order
    businesses, \* the businesses getYelpResults returned
    searchErr,  \* whether getYelpResults returned an error
    slackReq,   \* the callback requests postToSlack sent, in order
    publishErr, \* whether postToSlack returned an error
    calls       \* the steps of the handler the request reached, in order

vars == <<req, conv, pc, header, status, respBody, bodyValues, err, params, yelpReq, businesses,
          searchErr, slackReq, publishErr, calls>>

Init ==
    /\ req \in Requests
    /\ conv \in UnrepresentableConv
    /\ pc = "Received"
    /\ header = {}
    /\ status = 0
    /\ respBody = <<>>
    /\ bodyValues = <<>>
    /\ err = <<>>
    /\ params = ZeroParams
    /\ yelpReq = <<>>
    /\ businesses = <<>>
    /\ searchErr = FALSE
    /\ slackReq = <<>>
    /\ publishErr = FALSE
    /\ calls = <<>>

\* bodyValues, err := url.ParseQuery(body)
Decoded == ParseQuery(req.Body)
\* params, err := parseParams(bodyValues)
Parsed == parseParams(Decoded.values, conv)

AllowOrigin == <<"Access-Control-Allow-Origin", slackOrigin>>

\* w.WriteHeader(code): the first status sent stands.
WriteHeader(st, code) == IF st = 0 THEN code ELSE st
\* w.Write sends 200 first when no status was sent; so does net/http when
\* the handler returns without having sent one.
Written(st) == WriteHeader(st, StatusOK)

\* The branch of the handler a request takes, from the conditions of its
\* early returns, in their order.
IsPreflight == req.Method = "OPTIONS"
ReadFails == ~IsPreflight /\ ~req.readOk
DecodeFails == ~IsPreflight /\ req.readOk /\ ~Decoded.ok
ParseFails == ~IsPreflight /\ req.readOk /\ Decoded.ok /\ ~Parsed.ok
TokenMismatch ==
    /\ ~IsPreflight /\ req.readOk /\ Decoded.ok /\ Parsed.ok
    /\ Parsed.p.Token # slackToken
HelpAsked ==
    /\ ~IsPreflight /\ req.readOk /\ Decoded.ok /\ Parsed.ok
    /\ Parsed.p.Token = slackToken
    /\ Parsed.p.Help
SearchAsked ==
    /\ ~IsPreflight /\ req.readOk /\ Decoded.ok /\ Parsed.ok
    /\ Parsed.p.Token = slackToken
    /\ ~Parsed.p.Help

\* Mutant: the preflight branch sets its headers and returns without
\* w.WriteHeader(http.StatusNoContent).
Preflight_NoStatus ==
    /\ pc = "Received"
    /\ IsPreflight
    /\ header' = {AllowOrigin, <<"Access-Control-Allow-Methods", <<"POST">> >>,
                  <<"Access-Control-Max-Age", <<"3600">> >>}
    /\ status' = Written(status)
    /\ calls' = calls
    /\ pc' = "Done"
    /\ UNCHANGED <<bodyValues, err, req, conv, respBody, params, yelpReq, businesses, searchErr,
                   slackReq, publishErr>>

\* if r.Method == http.MethodOptions { ... return }
Preflight ==
    /\ pc = "Received"
    /\ IsPreflight
    /\ header' = {AllowOrigin, <<"Access-Control-Allow-Methods", <<"POST">> >>,
                  <<"Access-Control-Max-Age", <<"3600">> >>}
    /\ status' = WriteHeader(status, StatusNoContent)
    /\ calls' = calls \o <<"WriteHeader">>
    /\ pc' = "Done"
    /\ UNCHANGED <<bodyValues, err, req, conv, respBody, params, yelpReq, businesses, searchErr,
                   slackReq, publishErr>>

\* http.Error(w, "Bad request", http.StatusBadRequest)
BadRequest(steps, values, e) ==
    /\ bodyValues' = values
    /\ err' = e
    /\ header' = {AllowOrigin, <<"Content-Type", <<"text/plain; charset=utf-8">> >>,
                  <<"X-Content-Type-Options", <<"nosniff">> >>}
    /\ status' = WriteHeader(status, StatusBadRequest)
    /\ respBody' = Append(respBody, ErrBadRequest)
    /\ calls' = calls \o steps \o <<"WriteHeader", "Write">>
    /\ pc' = "Done"
    /\ UNCHANGED <<req, conv, params, yelpReq, businesses, searchErr, slackReq,
                   publishErr>>

\* body, err := ioutil.ReadAll(r.Body); if err != nil { ... return }
ReadFailed ==
    /\ pc = "Received"
    /\ ReadFails
    /\ BadRequest(<<"ReadAll">>, <<>>, <<"unexpected EOF">>)

\* bodyValues, err := url.ParseQuery(...); if err != nil { ... return }
DecodeFailed ==
    /\ pc = "Received"
    /\ DecodeFails
    /\ BadRequest(<<"ReadAll", "ParseQuery">>, Decoded.values, Decoded.err)

\* Mutant: a validation error is answered like a malformed body.
ValidationError_BadRequest ==
    /\ pc = "Received"
    /\ ParseFails
    /\ BadRequest(<<"ReadAll", "ParseQuery", "parseParams">>, Decoded.values, Parsed.err)

\* params, err := parseParams(bodyValues); if err != nil { ... return }
ValidationError ==
    /\ pc = "Received"
    /\ ParseFails
    /\ header' = {AllowOrigin}
    /\ status' = WriteHeader(status, StatusOK)
    /\ respBody' = Append(respBody, Parsed.err)
    /\ calls' = calls \o <<"ReadAll", "ParseQuery", "parseParams", "WriteHeader", "Write">>
    /\ pc' = "Done"
    /\ bodyValues' = Decoded.values
    /\ err' = Parsed.err
    /\ UNCHANGED <<req, conv, params, yelpReq, businesses, searchErr, slackReq,
                   publishErr>>

\* if params.Token != slackToken { ... return }
Unauthorized ==
    /\ pc = "Received"
    /\ TokenMismatch
    /\ header' = {AllowOrigin}
    /\ params' = Parsed.p
    /\ status' = Written(status)
    /\ calls' = calls \o <<"ReadAll", "ParseQuery", "parseParams", "tokenCheck">>
    /\ pc' = "Done"
    /\ bodyValues' = Decoded.values
    /\ err' = <<>>
    /\ UNCHANGED <<req, conv, respBody, yelpReq, businesses, searchErr, slackReq,
                   publishErr>>

\* w.WriteHeader(http.StatusOK); if params.Help { printHelp(w); return }
Help ==
    /\ pc = "Received"
    /\ HelpAsked
    /\ header' = {AllowOrigin}
    /\ params' = Parsed.p
    /\ status' = WriteHeader(status, StatusOK)
    /\ respBody' = Append(respBody, helpMsg)
    /\ calls' = calls \o <<"ReadAll", "ParseQuery", "parseParams", "tokenCheck",
                           "WriteHeader", "printHelp", "Write">>
    /\ pc' = "Done"
    /\ bodyValues' = Decoded.values
    /\ err' = <<>>
    /\ UNCHANGED <<req, conv, yelpReq, businesses, searchErr, slackReq, publishErr>>

\* w.WriteHeader(http.StatusOK); businesses, err := getYelpResults(params):
\* the search request is sent.
Search ==
    /\ pc = "Received"
    /\ SearchAsked
    /\ header' = {AllowOrigin}
    /\ params' = Parsed.p
    /\ status' = WriteHeader(status, StatusOK)
    /\ yelpReq' = Append(yelpReq, getYelpResults(Parsed.p))
    /\ calls' = calls \o <<"ReadAll", "ParseQuery", "parseParams", "tokenCheck",
                           "WriteHeader", "getYelpResults">>
    /\ pc' = "Searching"
    /\ bodyValues' = Decoded.values
    /\ err' = <<>>
    /\ UNCHANGED <<req, conv, respBody, businesses, searchErr, slackReq, publishErr>>

\* Mutant: a failed search is logged and nothing is written.
SearchFailed_Silent ==
    /\ pc = "Searching"
    /\ searchErr' = TRUE
    /\ status' = Written(status)
    /\ pc' = "Done"
    /\ err' = <<"Get: connection refused">>
    /\ UNCHANGED <<bodyValues, req, conv, header, respBody, params, yelpReq, businesses, slackReq,
                   publishErr, calls>>

\* getYelpResults returns an error (the call failed, the body could not be
\* read or was not JSON): w.Write([]byte("Internal Server Error")); return
SearchFailed ==
    /\ pc = "Searching"
    /\ searchErr' = TRUE
    /\ respBody' = Append(respBody, ErrInternal)
    /\ status' = Written(status)
    /\ calls' = calls \o <<"Write">>
    /\ pc' = "Done"
    /\ err' = <<"Get: connection refused">>
    /\ UNCHANGED <<bodyValues, req, conv, header, params, yelpReq, businesses, slackReq,
                   publishErr>>

\* len(businesses) == 0: postNotFound(params) sends the callback request.
SearchEmpty ==
    /\ pc = "Searching"
    /\ businesses' = <<>>
    /\ slackReq' = Append(slackReq, postNotFound(params))
    /\ calls' = calls \o <<"postNotFound", "postToSlack">>
    /\ pc' = "Publishing"
    /\ UNCHANGED <<bodyValues, err, req, conv, header, status, respBody, params, yelpReq, searchErr,
                   publishErr>>

\* blocks := buildBusinessBlocks(params, businesses);
\* postToSlack(params.ResponseURL, blocks) sends the callback request.
SearchFound ==
    /\ pc = "Searching"
    /\ \E bs \in ResultLists \ {<<>>} :
          /\ businesses' = bs
          /\ slackReq' = Append(slackReq,
                                postToSlack(params.ResponseURL,
                                            buildBusinessBlocks(params, bs)))
    /\ calls' = calls \o <<"buildBusinessBlocks", "postToSlack">>
    /\ pc' = "Publishing"
    /\ UNCHANGED <<bodyValues, err, req, conv, header, status, respBody, params, yelpReq, searchErr,
                   publishErr>>

\* postToSlack returns nil: the handler returns.
Published ==
    /\ pc = "Publishing"
    /\ pc' = "Done"
    /\ UNCHANGED <<bodyValues, err, req, conv, header, status, respBody, params, yelpReq, businesses,
                   searchErr, slackReq, publishErr, calls>>

\* Mutant: a failed publish is tried once more before giving up.
PublishFailed_Retry ==
    /\ pc = "Publishing"
    /\ publishErr' = TRUE
    /\ IF Len(slackReq) < 2
       THEN /\ slackReq' = Append(slackReq, slackReq[Len(slackReq)])
            /\ calls' = calls \o <<"postToSlack">>
            /\ pc' = "Publishing"
            /\ UNCHANGED <<respBody, status>>
       ELSE /\ respBody' = Append(respBody, ErrInternal)
            /\ status' = Written(status)
            /\ calls' = calls \o <<"Write">>
            /\ pc' = "Done"
            /\ UNCHANGED slackReq
    /\ err' = <<"Post: connection refused">>
    /\ UNCHANGED <<bodyValues, req, conv, header, params, yelpReq, businesses, searchErr>>

\* postToSlack returns an error: w.Write([]byte("Internal Server Error"))
PublishFailed ==
    /\ pc = "Publishing"
    /\ publishErr' = TRUE
    /\ respBody' = Append(respBody, ErrInternal)
    /\ status' = Written(status)
    /\ calls' = calls \o <<"Write">>
    /\ pc' = "Done"
    /\ err' = <<"Post: connection refused">>
    /\ UNCHANGED <<bodyValues, req, conv, header, params, yelpReq, businesses, searchErr,
                   slackReq>>

Next ==
    \/ Preflight
    \/ ReadFailed
    \/ DecodeFailed
    \/ ValidationError
    \/ Unauthorized
    \/ Help
    \/ Search
    \/ SearchFailed
    \/ SearchEmpty
    \/ SearchFound
    \/ Published
    \/ PublishFailed

Spec == Init /\ [][Next]_vars

(***************************************************************************)
(* Vocabulary of the properties                                            *)
(***************************************************************************)
One(b) == IF b THEN 1 ELSE 0
Called(f) == \E i \in DOMAIN calls : calls[i] = f
TimesCalled(f) == Cardinality({i \in DOMAIN calls : calls[i] = f})
Outbound == {"getYelpResults", "postNotFound", "buildBusinessBlocks", "postToSlack"}

\* The handler has called parseParams on the decoded body.
ReachedParser == pc # "Received" /\ Called("parseParams")

\* parseParams returned an error / returned Params.
ParserFailed == ReachedParser /\ ~Called("tokenCheck")
ParserPassed == ReachedParser /\ Called("tokenCheck")

\* The command text as parseParams reads it, and its key/value list.
CmdText == TrimSpace(Get(bodyValues, K_text))
IsHelpText == ToLower(CmdText) = S_help
CmdQuery == ParseQuery(CmdText)
RadiusText == Get(CmdQuery.values, K_radius)
LocationMissing == Get(CmdQuery.values, K_location) = <<>>
CategoryMissing == Get(CmdQuery.values, K_category) = <<>>

\* The radius value parses as a number greater than 24.
RadiusAbove24 ==
    /\ RadiusText # <<>>
    /\ ParseFloat(RadiusText).ok
    /\ FloatGt(ParseFloat(RadiusText).f, 24)

\* The radius is absent or does not parse.
RadiusDefaulted == RadiusText = <<>> \/ ~ParseFloat(RadiusText).ok

\* parseParams failed with this message and the handler answered with it.
FailedWith(msg) == ParserFailed /\ err = msg /\ respBody = <<msg>>

\* The search of the request returned without error.
SearchReturned == yelpReq # <<>> /\ pc \in {"Publishing", "Done"} /\ ~searchErr

(***************************************************************************)
(* C1                                                                      *)
(***************************************************************************)
\* C1: a non-preflight request whose token differs from the configured
\* secret makes no search call and no callback call and leaves the response
\* body empty, whatever its text is.
C1_UnauthorizedIsSilent ==
    (ReachedParser /\ Get(bodyValues, K_token) # slackToken)
    => (respBody = <<>> /\ yelpReq = <<>> /\ slackReq = <<>>)

(***************************************************************************)
(* C2                                                                      *)
(***************************************************************************)
\* C2 as stated: for a non-help command text without a location,
\* parseParams fails with "You must specify a location", whatever the other
\* keys are.
C2_NoLocationAlways ==
    (ReachedParser /\ ~IsHelpText /\ LocationMissing) => FailedWith(ErrNoLocation)

\* C2 as amended: for a non-help command text that decodes as a query, has
\* no location and whose radius does not parse to more than 24, parseParams
\* fails with "You must specify a location", whatever category and term are.
C2_NoLocation ==
    (ReachedParser /\ ~IsHelpText /\ CmdQuery.ok /\ LocationMissing /\ ~RadiusAbove24)
    => FailedWith(ErrNoLocation)

C2_Witness ==
    /\ ReachedParser /\ ~IsHelpText /\ CmdQuery.ok /\ LocationMissing
    /\ CategoryMissing
    /\ RadiusText = <<"2", "4">>
    /\ FailedWith(ErrNoLocation)

(***************************************************************************)
(* C3                                                                      *)
(***************************************************************************)
\* The two halves of C3 for the request of the behaviour: a radius that
\* parses to more than 24 fails with "Maximum radius is 24 miles"; a radius
\* that is absent or does not parse never does, and is 5 miles (8046 m) in
\* the Params of an accepted command.
C3_Radius ==
    /\ RadiusAbove24 => FailedWith(ErrMaxRadius)
    /\ RadiusDefaulted =>
          /\ err # ErrMaxRadius
          /\ respBody # <<ErrMaxRadius>>
          /\ ParserPassed => params.Radius = 8046

\* C3 as stated: for every non-help command text.
C3_MaxRadiusAlways == (ReachedParser /\ ~IsHelpText) => C3_Radius

\* C3 as amended: for every non-help command text that decodes as a query
\* (no invalid percent escape), whether or not location and category are
\* present.
C3_MaxRadius == (ReachedParser /\ ~IsHelpText /\ CmdQuery.ok) => C3_Radius

C3_Witness ==
    /\ ReachedParser /\ ~IsHelpText /\ CmdQuery.ok
    /\ RadiusAbove24 /\ LocationMissing /\ CategoryMissing
    /\ FailedWith(ErrMaxRadius)

(***************************************************************************)
(* C4                                                                      *)
(***************************************************************************)
\* C4: an OPTIONS request ends with status 204 and an empty body, and never
\* reaches the body read, the decoding, parseParams, the token check,
\* getYelpResults or postToSlack, whatever its body is.
C4_Preflight ==
    req.Method = "OPTIONS" =>
        /\ pc \in {"Received", "Done"}
        /\ pc = "Done" => status = StatusNoContent
        /\ respBody = <<>>
        /\ yelpReq = <<>> /\ slackReq = <<>>
        /\ bodyValues = <<>> /\ params = ZeroParams
        /\ \A f \in Outbound \cup {"ReadAll", "ParseQuery", "parseParams", "tokenCheck",
                                   "Write", "printHelp"} : ~Called(f)

\* A finished preflight whose body is an authorized, valid search command.
C4_Witness ==
    /\ req.Method = "OPTIONS" /\ pc = "Done" /\ status = StatusNoContent
    /\ req.readOk
    /\ req.Body = FormBody(slackToken, CommandText(<<"P","i","z","z","a">>,
                                                   <<"l","a",",","c","a">>,
                                                   Absent, Absent))

(***************************************************************************)
(* C5                                                                      *)
(***************************************************************************)
\* The section of business b: bold name first, URL last, with the image of
\* b as accessory.
IsSectionOf(blk, b) ==
    /\ blk.Type = "section"
    /\ Len(blk.Text) = 1
    /\ blk.Text[1].Type = "mrkdwn"
    /\ LET t == blk.Text[1].Text
       IN  /\ Len(t) > Len(b.Name) + Len(b.URL)
           /\ SubSeq(t, 2, 1 + Len(b.Name)) = b.Name
           /\ SubSeq(t, Len(t) - Len(b.URL) + 1, Len(t)) = b.URL
    /\ blk.Accessory = <<[Type |-> "image", ImageURL |-> b.ImageURL,
                          AltText |-> <<"alt text">>]>>

\* C5: when the search returned N businesses, 1 <= N <= 5, the payload
\* published has exactly 2+N blocks: a header section, a divider, and the
\* section of the i-th business at place 2+i.
C5_ResultBlocks ==
    (SearchReturned /\ Len(businesses) \in 1..5) =>
        /\ Len(slackReq) = 1
        /\ slackReq[1].URL = params.ResponseURL
        /\ LET blocks == slackReq[1].Body.Blocks
           IN  /\ Len(blocks) = 2 + Len(businesses)
               /\ blocks[1].Type = "section"
               /\ Len(blocks[1].Text) = 1
               /\ blocks[1].Accessory = <<>>
               /\ blocks[2] = [Type |-> "divider", Text |-> <<>>, Accessory |-> <<>>]
               /\ \A i \in 1..Len(businesses) : IsSectionOf(blocks[2 + i], businesses[i])

C5_Witness ==
    /\ pc = "Done" /\ SearchReturned /\ ~publishErr
    /\ Len(businesses) = 5
    /\ businesses[1] # businesses[2]
    /\ Len(slackReq) = 1
    /\ Len(slackReq[1].Body.Blocks) = 7

(***************************************************************************)
(* C6                                                                      *)
(***************************************************************************)
\* C6: when the search returns no business, exactly one callback request is
\* sent, to the callback URL of the request, with exactly one block: a text
\* section with the not-found message for the category and the location;
\* buildBusinessBlocks is not called.
C6_NotFound ==
    (SearchReturned /\ businesses = <<>>) =>
        /\ Len(slackReq) = 1
        /\ slackReq[1].URL = Get(bodyValues, K_response_url)
        /\ LET blocks == slackReq[1].Body.Blocks
           IN  /\ Len(blocks) = 1
               /\ blocks[1].Type = "section"
               /\ blocks[1].Accessory = <<>>
               /\ blocks[1].Text =
                    <<[Type |-> "mrkdwn",
                       Text |-> <<"*Sorry we couldn't find any results for ">>
                                \o params.Category \o <<" in ">> \o params.Location
                                \o <<". Try increasing your search radius*">>]>>
        /\ params.Category # <<>> /\ params.Location # <<>>
        /\ ~Called("buildBusinessBlocks")
        /\ TimesCalled("postToSlack") = 1

C6_Witness ==
    /\ SearchReturned /\ businesses = <<>> /\ pc = "Done" /\ ~publishErr
    /\ Len(slackReq) = 1
    /\ Len(slackReq[1].Body.Blocks) = 1

(***************************************************************************)
(* C7                                                                      *)
(***************************************************************************)
\* C7: when parseParams returns an error, the handler answers 200 with the
\* error's message as body and the request ends: no search call, no
\* callback call.
C7_ValidationError ==
    ParserFailed =>
        /\ pc = "Done"
        /\ status = StatusOK
        /\ err # <<>>
        /\ respBody = <<err>>
        /\ yelpReq = <<>> /\ slackReq = <<>>
        /\ \A f \in Outbound : ~Called(f)

C7_Witness ==
    /\ ParserFailed
    /\ respBody = <<ErrNoCategory>>
    /\ status = StatusOK

C9_UpstreamErrors ==
    /\ searchErr =>
          (pc = "Done" /\ respBody = <<ErrInternal>> /\ slackReq = <<>>)
    /\ publishErr =>
          (pc = "Done" /\ ~searchErr /\ respBody = <<ErrInternal>> /\ Len(slackReq) = 1)
    /\ (pc = "Done" /\ SearchReturned /\ ~publishErr) =>
          (respBody = <<>> /\ Len(slackReq) = 1)

C9_Witness ==
    /\ pc = "Done" /\ publishErr /\ businesses # <<>>
    /\ respBody = <<ErrInternal>>
    /\ Len(slackReq) = 1

(***************************************************************************)
(* C10                                                                     *)
(***************************************************************************)
\* C10: the Params of an accepted non-help command have a category, a
\* location and a Radius of 0 to 38624 meters.
C10_AcceptedQuery ==
    (ParserPassed /\ ~params.Help) =>
        /\ params.Category # <<>>
        /\ params.Location # <<>>
        /\ params.Radius >= 0
        /\ params.Radius <= 38624

====
